---- MODULE Spec2Model ----
(***************************************************************************)
(* Model of the cost ledger (cost_tracker.py, class CostTracker) and of    *)
(* the request pipeline of bot.py that drives it.                          *)
(*                                                                         *)
(* Money is counted in units of 0.25 micro-dollars, so that both per-token *)
(* rates are integers: INPUT_TOKEN_COST = 0.25/1e6 $ = 1 unit and          *)
(* OUTPUT_TOKEN_COST = 1.25/1e6 $ = 5 units.  Arithmetic is exact.         *)
(* Wall-clock time is counted in calendar months since January 2023; the   *)
(* period id 'YYYY-MM' is the pair <<year, month>>.                        *)
(***************************************************************************)
EXTENDS Integers, Sequences, FiniteSets, TLC

VARIABLES
    now,            \* wall clock: months elapsed since 2023-01
    data,           \* CostTracker.data
    warnings_sent,  \* CostTracker.warnings_sent
    file,           \* contents of cost_data.json
    ret,            \* the step just taken: the ledger call made and what it returned
    archiveLog,     \* every entry appended to data.history since the data was loaded
    timesFired,     \* per threshold: returns by check_warning_thresholds, since the
                    \* process started, for the cost of the stored period
    sinceClear,     \* per threshold: returns since warnings_sent was last cleared
    sumRecorded,    \* summed cost of the track_request calls made so far
    resets,         \* number of reset_usage calls made so far
    req,            \* per summary request: its stage, its locals, its outcome,
                    \* the calls it made (stores: store_message, reads:
                    \* get_stored_messages, checks: check_message_count,
                    \* estimates: estimate_api_cost, gates: can_make_request,
                    \* apiCalls: messages.create, records: track_request) and
                    \* (gatedAt, gatedLog) the summed recorded cost and the
                    \* number of archived periods when it made the budget
                    \* check of handle_summary_request
    busy            \* the request whose blocking summarizer call holds the event loop

ledgerVars == <<data, warnings_sent, file, ret, archiveLog, timesFired, sinceClear,
                sumRecorded, resets>>
botVars == <<req, busy>>
vars == <<now, data, warnings_sent, file, ret, archiveLog, timesFired, sinceClear,
          sumRecorded, resets, req, busy>>

----------------------------------------------------------------------------
(* Bounds of the model *)

MaxMonth == 13          \* the clock stops ticking here
MaxRecorded == 50000000 \* track_request is not called past this summed cost
MaxResets == 1          \* reset_usage is not called more often than this
Many == 2               \* the counters timesFired and sinceClear stop counting here
NumRequests == 2        \* summary requests the bot handles

(* Program constants *)

INPUT_TOKEN_COST == 1
OUTPUT_TOKEN_COST == 5
WARNING_THRESHOLDS == <<50, 75, 90>>
HISTORY_CAP == 12
StartMonth == 12        \* the clock at construction: 2024-01

(* monthly_budget: MONTHLY_BUDGET, by default 10.0 $ = 40,000,000 units *)
monthly_budget == 40000000

(* Token usages (input, output) a caller reports to track_request:
   25% and 90% of the budget *)
TokenUsages == { <<2000000, 1600000>>, <<1000000, 7000000>> }

(* Token estimates a caller passes to can_make_request: 25% of the budget
   and just over all of it *)
EstimatedTokens == { 2000000, 8000001 }

(* bot.py *)
HARD_MESSAGE_LIMIT == 1000
SAFE_PROCESSING_LIMIT == 500
WARNING_THRESHOLD == 2000000    \* 0.50 $
GATE_ESTIMATE == 2000           \* can_make_request(estimated_tokens=2000)

MAX_STORED_MESSAGES == 100

(* What the store returns for a request: n messages whose formatted text, after
   sampling, is chars characters long *)
Retrievals ==
    { [ n |-> 0, chars |-> 0 ],
      [ n |-> 3, chars |-> 0 ],
      [ n |-> 75, chars |-> 20000 ],
      [ n |-> 1200, chars |-> 8000000 ] }

(* Token usages (input, output) the summarizer reports; the largest costs just
   under what the gate projects for the largest retrieval *)
ApiUsages == { <<5300, 300>>, <<2000300, 500>>, <<10000000, 500>> }

----------------------------------------------------------------------------
(* Helpers *)

Range(s) == { s[i] : i \in DOMAIN s }

\* seq[-n:] of Python
LastN(s, n) == IF Len(s) <= n THEN s ELSE SubSeq(s, Len(s) - n + 1, Len(s))

\* datetime.now(timezone.utc).strftime('%Y-%m')
MonthId(t) == << 2023 + (t \div 12), (t % 12) + 1 >>

\* sorted(WARNING_THRESHOLDS, reverse=True)[0] over the candidates
MaxOf(S) == CHOOSE x \in S : \A y \in S : y <= x

_create_default_data(t) ==
    [ current_month |-> MonthId(t), total_cost |-> 0, input_tokens |-> 0,
      output_tokens |-> 0, request_count |-> 0, history |-> << >> ]

\* the dict archived by _check_and_reset_month and by reset_usage
ArchiveEntry(d) ==
    [ month |-> d.current_month, total_cost |-> d.total_cost,
      input_tokens |-> d.input_tokens, output_tokens |-> d.output_tokens,
      request_count |-> d.request_count ]

\* the append without the cap
AppendCapped_NoCap(h, e) == Append(h, e)

\* the cap taken from the wrong end: history[:12]
AppendCapped_KeepOldest(h, e) ==
    IF Len(Append(h, e)) > 12 THEN SubSeq(Append(h, e), 1, 12) ELSE Append(h, e)

\* history.append(entry); if len(history) > 12: history = history[-12:]
AppendCapped(h, e) ==
    IF Len(Append(h, e)) > HISTORY_CAP THEN LastN(Append(h, e), HISTORY_CAP)
    ELSE Append(h, e)

\* The file after _save_data: open(..., 'w') then json.dump.  "ok": the write
\* completed; "unchanged": open() raised; "truncated": the dump did not complete.
WriteOutcomes == { "ok", "unchanged", "truncated" }

NoData == _create_default_data(0)

_save_data(d, f, w) ==
    CASE w = "ok"        -> [ status |-> "ok", data |-> d ]
      [] w = "unchanged" -> f
      [] w = "truncated" -> [ status |-> "truncated", data |-> NoData ]

\* no fallback: whatever the file holds is taken as the data
_load_data_NoFallback(f, t) == f.data

\* _load_data: a missing file, or one json.load rejects, gives the default data
_load_data(f, t) ==
    IF f.status = "ok" THEN f.data ELSE _create_default_data(t)

\* a month comparison that also compares the day: every access sees a new month
MonthChanged_Daily(d, t) == TRUE

\* self.data['current_month'] != current_month
MonthChanged(d, t) == d.current_month # MonthId(t)

\* _check_and_reset_month: the result on data, warnings_sent and the file
_check_and_reset_month(d, ws, f, t, w) ==
    IF MonthChanged(d, t)
    THEN LET nd == [ d EXCEPT !.history = AppendCapped(d.history, ArchiveEntry(d)),
                              !.current_month = MonthId(t),
                              !.total_cost = 0,
                              !.input_tokens = 0,
                              !.output_tokens = 0,
                              !.request_count = 0 ]
         IN  [ data |-> nd, warnings_sent |-> {}, file |-> _save_data(nd, f, w),
               rolled |-> TRUE ]
    ELSE [ data |-> d, warnings_sent |-> ws, file |-> f, rolled |-> FALSE ]

\* the two rates swapped
calculate_cost_Swapped(input_tokens, output_tokens) ==
    input_tokens * 5 + output_tokens * 1

calculate_cost(input_tokens, output_tokens) ==
    input_tokens * INPUT_TOKEN_COST + output_tokens * OUTPUT_TOKEN_COST

\* budget_used_pct = (total_cost / monthly_budget) * 100, as the exact fraction
\* num / den with den = monthly_budget / 100
budget_used_pct(total_cost) == [ num |-> total_cost, den |-> monthly_budget \div 100 ]

\* budget_used_pct >= threshold
PctAtLeast(pct, threshold) == pct.num >= threshold * pct.den

_get_budget_status(pct) ==
    IF PctAtLeast(pct, 100) THEN "EXCEEDED"
    ELSE IF PctAtLeast(pct, 90) THEN "CRITICAL"
    ELSE IF PctAtLeast(pct, 75) THEN "HIGH"
    ELSE IF PctAtLeast(pct, 50) THEN "MODERATE"
    ELSE "HEALTHY"

\* the dict get_usage_stats returns for data d
UsageStats(d) ==
    [ current_month |-> d.current_month,
      total_cost |-> d.total_cost,
      monthly_budget |-> monthly_budget,
      budget_used_pct |-> budget_used_pct(d.total_cost),
      remaining_budget |-> monthly_budget - d.total_cost,
      input_tokens |-> d.input_tokens,
      output_tokens |-> d.output_tokens,
      total_tokens |-> d.input_tokens + d.output_tokens,
      request_count |-> d.request_count,
      budget_status |-> _get_budget_status(budget_used_pct(d.total_cost)) ]

\* the thresholds check_warning_thresholds may return for cost c and fired set ws
Candidates(c, ws) ==
    { th \in Range(WARNING_THRESHOLDS) :
        PctAtLeast(budget_used_pct(c), th) /\ th \notin ws }

\* counters per threshold
NoneFired == [ th \in Range(WARNING_THRESHOLDS) |-> 0 ]

OneMore(c, th) == [ c EXCEPT ![th] = IF @ < Many THEN @ + 1 ELSE @ ]

\* timesFired once the stored period id went from m to n
InPeriod(c, m, n) == IF m = n THEN c ELSE NoneFired

----------------------------------------------------------------------------
(* Files the ledger may find at construction *)

\* eleven archived months 2023-01 .. 2023-11 and a current period 2023-12
OldHistory ==
    [ i \in 1..11 |->
        [ month |-> MonthId(i - 1), total_cost |-> 10000000,
          input_tokens |-> 2000000, output_tokens |-> 1600000, request_count |-> 1 ] ]

OldData ==
    [ current_month |-> MonthId(11), total_cost |-> 36000000,
      input_tokens |-> 1000000, output_tokens |-> 7000000, request_count |-> 1,
      history |-> OldHistory ]

InitFiles ==
    { [ status |-> "missing", data |-> NoData ],
      [ status |-> "ok", data |-> OldData ] }

----------------------------------------------------------------------------
(* The ledger and the variables that follow its history, as one record *)

Cur ==
    [ data |-> data, warnings_sent |-> warnings_sent, file |-> file, ret |-> ret,
      archiveLog |-> archiveLog, timesFired |-> timesFired,
      sinceClear |-> sinceClear, sumRecorded |-> sumRecorded, resets |-> resets ]

Becomes(S) ==
    /\ data' = S.data
    /\ warnings_sent' = S.warnings_sent
    /\ file' = S.file
    /\ ret' = S.ret
    /\ archiveLog' = S.archiveLog
    /\ timesFired' = S.timesFired
    /\ sinceClear' = S.sinceClear
    /\ sumRecorded' = S.sumRecorded
    /\ resets' = S.resets

Holds(S) ==
    /\ data = S.data
    /\ warnings_sent = S.warnings_sent
    /\ file = S.file
    /\ ret = S.ret
    /\ archiveLog = S.archiveLog
    /\ timesFired = S.timesFired
    /\ sinceClear = S.sinceClear
    /\ sumRecorded = S.sumRecorded
    /\ resets = S.resets

\* CostTracker.__init__ run against file f at time t
Construct(f, t, w) ==
    LET r == _check_and_reset_month(_load_data(f, t), {}, f, t, w)
    IN  [ data |-> r.data, warnings_sent |-> r.warnings_sent, file |-> r.file,
          ret |-> [ op |-> "init", rolled |-> r.rolled ],
          archiveLog |-> r.data.history, timesFired |-> NoneFired,
          sinceClear |-> NoneFired, sumRecorded |-> 0, resets |-> 0 ]

\* a call of _check_and_reset_month() at time t
CheckMonth(S, t, w) ==
    LET r == _check_and_reset_month(S.data, S.warnings_sent, S.file, t, w)
    IN  [ S EXCEPT !.data = r.data,
                   !.warnings_sent = r.warnings_sent,
                   !.file = r.file,
                   !.ret = [ op |-> "_check_and_reset_month", rolled |-> r.rolled ],
                   !.archiveLog = IF r.rolled THEN Append(@, ArchiveEntry(S.data))
                                  ELSE @,
                   !.timesFired = InPeriod(@, S.data.current_month,
                                           r.data.current_month),
                   !.sinceClear = IF r.rolled THEN NoneFired ELSE @ ]

\* no projected total is over the budget
OverBudget_Never(projected_total) == FALSE

\* the comparison made non-strict
OverBudget_AtBudget(projected_total) == projected_total >= monthly_budget

\* projected_total > self.monthly_budget
OverBudget(projected_total) == projected_total > monthly_budget

\* the estimate billed at both rates
EstimatedCost_BothRates(estimated_tokens) == estimated_tokens * (1 + 5)

\* estimated_cost = estimated_tokens * self.OUTPUT_TOKEN_COST
EstimatedCost(estimated_tokens) == estimated_tokens * OUTPUT_TOKEN_COST

\* can_make_request(estimated_tokens) at time t
can_make_request(S, estimated_tokens, t, w) ==
    LET R == CheckMonth(S, t, w)
        estimated_cost == EstimatedCost(estimated_tokens)
        projected_total == R.data.total_cost + estimated_cost
    IN  [ R EXCEPT !.ret = [ op |-> "can_make_request",
                             estimated_tokens |-> estimated_tokens,
                             can_proceed |-> ~OverBudget(projected_total),
                             spending |-> R.data.total_cost,
                             budget |-> monthly_budget,
                             rolled |-> R.ret.rolled ] ]

\* track_request(input_tokens, output_tokens)
track_request(S, input_tokens, output_tokens, w) ==
    LET cost == calculate_cost(input_tokens, output_tokens)
        nd == [ S.data EXCEPT !.total_cost = @ + cost,
                              !.input_tokens = @ + input_tokens,
                              !.output_tokens = @ + output_tokens,
                              !.request_count = @ + 1 ]
    IN  [ S EXCEPT !.data = nd,
                   !.file = _save_data(nd, S.file, w),
                   !.ret = [ op |-> "track_request",
                             request_cost |-> cost,
                             total_cost |-> nd.total_cost,
                             budget_used_pct |-> budget_used_pct(nd.total_cost),
                             remaining_budget |-> monthly_budget - nd.total_cost,
                             input_tokens |-> input_tokens,
                             output_tokens |-> output_tokens,
                             rolled |-> FALSE ],
                   !.sumRecorded = @ + cost ]

\* get_usage_stats() at time t
get_usage_stats(S, t, w) ==
    LET R == CheckMonth(S, t, w)
    IN  [ R EXCEPT !.ret = [ op |-> "get_usage_stats", stats |-> UsageStats(R.data),
                             rolled |-> R.ret.rolled ] ]

\* the thresholds taken in ascending order
PickThreshold_Lowest(c, ws) ==
    IF Candidates(c, ws) = {} THEN 0
    ELSE CHOOSE x \in Candidates(c, ws) : \A y \in Candidates(c, ws) : x <= y

\* the threshold check_warning_thresholds picks: the first one, in descending
\* order, that is reached and not in warnings_sent; 0 when there is none
PickThreshold(c, ws) ==
    IF Candidates(c, ws) = {} THEN 0 ELSE MaxOf(Candidates(c, ws))

\* the picked threshold is not remembered
MarkSent_Forgotten(ws, c, th) == ws

\* warnings_sent after check_warning_thresholds picked threshold th at cost c
MarkSent(ws, c, th) == ws \cup {th}

\* check_warning_thresholds() at time t
check_warning_thresholds(S, t, w) ==
    LET threshold == PickThreshold(S.data.total_cost, S.warnings_sent)
        marked == [ S EXCEPT !.warnings_sent =
                               MarkSent(@, S.data.total_cost, threshold) ]
        R == get_usage_stats(marked, t, w)
    IN  IF threshold # 0
        THEN [ R EXCEPT !.ret = [ op |-> "check_warning_thresholds",
                                  threshold |-> threshold,
                                  stats |-> R.ret.stats,
                                  rolled |-> R.ret.rolled ],
                        !.timesFired = IF R.ret.rolled THEN @ ELSE OneMore(@, threshold),
                        !.sinceClear = IF R.ret.rolled THEN @ ELSE OneMore(@, threshold) ]
        ELSE [ S EXCEPT !.ret = [ op |-> "check_warning_thresholds",
                                  threshold |-> 0, rolled |-> FALSE ] ]

\* the snapshot taken after the counters were zeroed
reset_usage_SnapshotAfter(S, t, w) ==
    LET nd == [ S.data EXCEPT !.current_month = MonthId(t),
                              !.total_cost = 0,
                              !.input_tokens = 0,
                              !.output_tokens = 0,
                              !.request_count = 0 ]
        previous_stats == ArchiveEntry(nd)
        hd == [ nd EXCEPT !.history = AppendCapped(@, previous_stats) ]
    IN  [ S EXCEPT !.data = hd,
                   !.warnings_sent = {},
                   !.file = _save_data(hd, S.file, w),
                   !.ret = [ op |-> "reset_usage", previous_stats |-> previous_stats,
                             rolled |-> FALSE ],
                   !.archiveLog = Append(@, previous_stats),
                   !.timesFired = InPeriod(@, S.data.current_month, hd.current_month),
                   !.sinceClear = NoneFired,
                   !.resets = @ + 1 ]

\* reset_usage() at time t
reset_usage(S, t, w) ==
    LET previous_stats == ArchiveEntry(S.data)
        nd == [ S.data EXCEPT !.history = AppendCapped(@, previous_stats),
                              !.current_month = MonthId(t),
                              !.total_cost = 0,
                              !.input_tokens = 0,
                              !.output_tokens = 0,
                              !.request_count = 0 ]
    IN  [ S EXCEPT !.data = nd,
                   !.warnings_sent = {},
                   !.file = _save_data(nd, S.file, w),
                   !.ret = [ op |-> "reset_usage", previous_stats |-> previous_stats,
                             rolled |-> FALSE ],
                   !.archiveLog = Append(@, previous_stats),
                   !.timesFired = InPeriod(@, S.data.current_month, nd.current_month),
                   !.sinceClear = NoneFired,
                   !.resets = @ + 1 ]

----------------------------------------------------------------------------
(* The ledger on its own: any caller, any order of calls *)

Reqs == 1..NumRequests

IdleRequest ==
    [ pc |-> "idle", original_count |-> 0, count |-> 0, chars |-> 0,
      estimated_tokens |-> 0, exceeded |-> FALSE, outcome |-> "none",
      timeframe |-> FALSE, stores |-> 0, reads |-> 0,
      checks |-> 0, estimates |-> 0, gates |-> 0, apiCalls |-> 0, records |-> 0,
      gatedAt |-> -1, gatedLog |-> -1 ]

Init ==
    /\ now = StartMonth
    /\ \E f \in InitFiles : Holds(Construct(f, StartMonth, "ok"))
    /\ req = [ r \in Reqs |-> IdleRequest ]
    /\ busy = 0

\* the calendar month changes
Tick ==
    /\ now < MaxMonth
    /\ now' = now + 1
    /\ ret' = [ op |-> "tick", rolled |-> FALSE ]
    /\ UNCHANGED <<data, warnings_sent, file, archiveLog, timesFired, sinceClear,
                   sumRecorded, resets>>

\* the process is restarted: the ledger is constructed again from the file
Restart(w) ==
    /\ Becomes([ Construct(file, now, w) EXCEPT !.sumRecorded = sumRecorded,
                                                !.resets = resets ])
    /\ UNCHANGED now

CallGate(e, w) ==
    /\ Becomes(can_make_request(Cur, e, now, w))
    /\ UNCHANGED now

CallTrack(input_tokens, output_tokens, w) ==
    /\ sumRecorded + calculate_cost(input_tokens, output_tokens) <= MaxRecorded
    /\ Becomes(track_request(Cur, input_tokens, output_tokens, w))
    /\ UNCHANGED now

CallUsage(w) ==
    /\ Becomes(get_usage_stats(Cur, now, w))
    /\ UNCHANGED now

CallWarnings(w) ==
    /\ Becomes(check_warning_thresholds(Cur, now, w))
    /\ UNCHANGED now

CallReset(w) ==
    /\ resets < MaxResets
    /\ Becomes(reset_usage(Cur, now, w))
    /\ UNCHANGED now

\* writes to the file succeed
Next ==
    /\ \/ Tick
       \/ Restart("ok")
       \/ \E e \in EstimatedTokens : CallGate(e, "ok")
       \/ \E u \in TokenUsages : CallTrack(u[1], u[2], "ok")
       \/ CallUsage("ok")
       \/ CallWarnings("ok")
       \/ CallReset("ok")
    /\ UNCHANGED botVars

Spec == Init /\ [][Next]_vars

----------------------------------------------------------------------------
(* The ledger when the process may die inside a write *)

\* the process died inside the _save_data() of the call that gave S
Crashed(S) == [ S EXCEPT !.ret = [ op |-> "crash", during |-> S.ret.op,
                                   rolled |-> FALSE ] ]

Alive == ret.op # "crash"

\* track_request, the process dying in its _save_data(): before open(), after
\* open() truncated the file, or once json.dump had written everything
CrashInTrack(input_tokens, output_tokens, w) ==
    /\ Alive
    /\ sumRecorded + calculate_cost(input_tokens, output_tokens) <= MaxRecorded
    /\ Becomes(Crashed(track_request(Cur, input_tokens, output_tokens, w)))
    /\ UNCHANGED now

\* reset_usage, the process dying in its _save_data()
CrashInReset(w) ==
    /\ Alive
    /\ resets < MaxResets
    /\ Becomes(Crashed(reset_usage(Cur, now, w)))
    /\ UNCHANGED now

\* a rollover, the process dying in its _save_data()
CrashInRollover(w) ==
    /\ Alive
    /\ MonthChanged(data, now)
    /\ Becomes(Crashed(CheckMonth(Cur, now, w)))
    /\ UNCHANGED now

\* a dead process does nothing until it is started again
NextCrash ==
    /\ \/ Alive /\ Tick
       \/ Restart("ok")
       \/ Alive /\ \E e \in EstimatedTokens : CallGate(e, "ok")
       \/ Alive /\ \E u \in TokenUsages : CallTrack(u[1], u[2], "ok")
       \/ Alive /\ CallUsage("ok")
       \/ Alive /\ CallWarnings("ok")
       \/ Alive /\ CallReset("ok")
       \/ \E u \in TokenUsages, w \in WriteOutcomes : CrashInTrack(u[1], u[2], w)
       \/ \E w \in WriteOutcomes : CrashInReset(w)
       \/ \E w \in WriteOutcomes : CrashInRollover(w)
    /\ UNCHANGED botVars

SpecCrash == Init /\ [][NextCrash]_vars

----------------------------------------------------------------------------
(* The bot: summary requests and the commands that reach the ledger *)

Min(a, b) == IF a < b THEN a ELSE b
Max(a, b) == IF a > b THEN a ELSE b

\* the suggestion made with the hard limit as its target
CheckCount_SuggestHard(hard_limit, message_count) ==
    IF message_count > hard_limit
    THEN [ status |-> "require_sampling", should_sample |-> TRUE,
           recommended_sample_size |-> hard_limit ]
    ELSE IF message_count > SAFE_PROCESSING_LIMIT
    THEN [ status |-> "suggest_sampling", should_sample |-> TRUE,
           recommended_sample_size |-> hard_limit ]
    ELSE [ status |-> "ok", should_sample |-> FALSE,
           recommended_sample_size |-> message_count ]

\* SmartSampler(hard_limit).check_message_count(message_count)
CheckCount(hard_limit, message_count) ==
    IF message_count > hard_limit
    THEN [ status |-> "require_sampling", should_sample |-> TRUE,
           recommended_sample_size |-> hard_limit ]
    ELSE IF message_count > SAFE_PROCESSING_LIMIT
    THEN [ status |-> "suggest_sampling", should_sample |-> TRUE,
           recommended_sample_size |-> SAFE_PROCESSING_LIMIT ]
    ELSE [ status |-> "ok", should_sample |-> FALSE,
           recommended_sample_size |-> message_count ]

\* no count asks for sampling
check_message_count_NeverSamples(message_count) ==
    [ status |-> "ok", should_sample |-> FALSE,
      recommended_sample_size |-> message_count ]

\* get_smart_sampler().check_message_count: the sampler built with the default
\* hard limit
check_message_count(message_count) == CheckCount(HARD_MESSAGE_LIMIT, message_count)

\* len(sample_messages(messages, target_size)) for len(messages) = len, with
\* prioritize_engagement: each segment gives segment_sorted[:take_count], the
\* first remaining_messages segments one more than the others, and the last
\* segment holds the messages the division leaves over
SampledCount(len, target_size) ==
    IF len <= target_size THEN len
    ELSE IF target_size <= 0 THEN 0
    ELSE LET num_segments == Min(target_size, len)
             messages_per_segment == target_size \div num_segments
             remaining_messages == target_size % num_segments
             segment_size == len \div num_segments
             last_size == len - (num_segments - 1) * segment_size
         IN  remaining_messages * Min(messages_per_segment + 1, segment_size)
               + (num_segments - 1 - remaining_messages)
                   * Min(messages_per_segment, segment_size)
               + Min(messages_per_segment, last_size)

\* estimate_api_cost(message_count, messages_text) with len(messages_text) = chars
estimate_api_cost(message_count, chars) ==
    LET estimated_input_tokens ==
            IF chars > 0 THEN (chars \div 4) + 300 ELSE (message_count * 50) + 300
        estimated_output_tokens == Min(500, Max(100, message_count \div 2))
        estimated_cost == estimated_input_tokens * 1 + estimated_output_tokens * 5
    IN  [ estimated_input_tokens |-> estimated_input_tokens,
          estimated_output_tokens |-> estimated_output_tokens,
          estimated_cost |-> estimated_cost,
          warning_threshold_exceeded |-> estimated_cost > WARNING_THRESHOLD ]

BotStep == [ op |-> "bot", rolled |-> FALSE ]

\* the check and the record under one lock: a request is refused while
\* another one is between its check and its record
AfterGate_Exclusive(q, can_proceed, stage) ==
    IF can_proceed /\ \A x \in Reqs : ( req[x] = q \/ req[x].pc # "generating" )
    THEN [ q EXCEPT !.pc = stage, !.gates = @ + 1 ]
    ELSE [ q EXCEPT !.pc = "done", !.gates = @ + 1, !.outcome = "budget-denied" ]

\* a denial is reported but the request goes on
AfterGate_NoReturn(q, can_proceed, stage) ==
    IF can_proceed THEN [ q EXCEPT !.pc = stage, !.gates = @ + 1 ]
    ELSE [ q EXCEPT !.pc = stage, !.gates = @ + 1, !.outcome = "budget-denied" ]

\* if not can_proceed: report the budget error and return
AfterGate(q, can_proceed, stage) ==
    IF can_proceed THEN [ q EXCEPT !.pc = stage, !.gates = @ + 1 ]
    ELSE [ q EXCEPT !.pc = "done", !.gates = @ + 1, !.outcome = "budget-denied" ]

(* Texts are sequences of one-character strings.  An instant of UTC is the
   day (datetime.toordinal: 1 for 0001-01-01), the second of that day and the
   microsecond of that second. *)
Digits == << "0", "1", "2", "3", "4", "5", "6", "7", "8", "9" >>
UpperCase == << "A", "B", "C", "D", "E", "F", "G", "H", "I", "J", "K", "L", "M",
                "N", "O", "P", "Q", "R", "S", "T", "U", "V", "W", "X", "Y", "Z" >>
LowerCase == << "a", "b", "c", "d", "e", "f", "g", "h", "i", "j", "k", "l", "m",
                "n", "o", "p", "q", "r", "s", "t", "u", "v", "w", "x", "y", "z" >>

\* \d and \s of the patterns, on the characters of the texts considered
IsDigit(c) == \E i \in 1..10 : Digits[i] = c
IsSpace(c) == c \in { " ", "\t" }
AllDigits(s) == s # << >> /\ \A i \in 1..Len(s) : IsDigit(s[i])

\* int() of a string of digits
RECURSIVE int(_)
int(s) ==
    IF s = << >> THEN 0
    ELSE 10 * int(SubSeq(s, 1, Len(s) - 1))
           + ( (CHOOSE i \in 1..10 : Digits[i] = s[Len(s)]) - 1 )

\* int(context.args[0]) raises ValueError: the argument is no string of
\* digits with an optional sign
IntValueError(s) ==
    ~ ( AllDigits(s) \/ ( s # << >> /\ Head(s) \in { "-", "+" } /\ AllDigits(Tail(s)) ) )

\* str.lower
lower(text) ==
    [ i \in 1..Len(text) |->
        IF \E k \in 1..26 : UpperCase[k] = text[i]
        THEN LowerCase[CHOOSE k \in 1..26 : UpperCase[k] = text[i]]
        ELSE text[i] ]

\* str.strip
RECURSIVE lstrip(_)
lstrip(s) == IF s # << >> /\ IsSpace(Head(s)) THEN lstrip(Tail(s)) ELSE s

RECURSIVE rstrip(_)
rstrip(s) ==
    IF s # << >> /\ IsSpace(s[Len(s)]) THEN rstrip(SubSeq(s, 1, Len(s) - 1)) ELSE s

strip(s) == rstrip(lstrip(s))

\* the runs of characters other than white space: what \s+ separates
RECURSIVE split(_)
split(s) ==
    LET t == lstrip(s)
        k == IF \E i \in 1..Len(t) : IsSpace(t[i])
             THEN ( CHOOSE i \in 1..Len(t) :
                      IsSpace(t[i]) /\ \A j \in 1..(i - 1) : ~IsSpace(t[j]) ) - 1
             ELSE Len(t)
    IN  IF t = << >> THEN << >>
        ELSE << SubSeq(t, 1, k) >> \o split(SubSeq(t, k + 1, Len(t)))

\* ' '.join(context.args)
RECURSIVE join(_)
join(args) ==
    IF args = << >> THEN << >>
    ELSE IF Len(args) = 1 THEN args[1]
    ELSE args[1] \o << " " >> \o join(Tail(args))

\* ^ and $ with white space only between the parts
Anchored(text) == text # << >> /\ ~IsSpace(text[1]) /\ ~IsSpace(text[Len(text)])

\* \d{4}-\d{2}-\d{2}
DatePattern(w) ==
    /\ Len(w) = 10
    /\ w[5] = "-" /\ w[8] = "-"
    /\ \A i \in { 1, 2, 3, 4, 6, 7, 9, 10 } : IsDigit(w[i])

NoMatch == [ matched |-> FALSE, groups |-> << >> ]
Match(groups) == [ matched |-> TRUE, groups |-> groups ]

RelativeUnits ==
    { << "h", "o", "u", "r" >>, << "h", "o", "u", "r", "s" >>,
      << "d", "a", "y" >>, << "d", "a", "y", "s" >>,
      << "w", "e", "e", "k" >>, << "w", "e", "e", "k", "s" >> }

\* ^last\s+(\d+)\s+(hour|hours|day|days|week|weeks)$, re.IGNORECASE
RELATIVE_PATTERN(text) ==
    LET w == split(text)
    IN  IF /\ Anchored(text) /\ Len(w) = 3
           /\ lower(w[1]) = << "l", "a", "s", "t" >>
           /\ AllDigits(w[2])
           /\ lower(w[3]) \in RelativeUnits
        THEN Match(<< w[2], w[3] >>) ELSE NoMatch

\* ^from\s+(\d{4}-\d{2}-\d{2})\s+to\s+(\d{4}-\d{2}-\d{2})$, re.IGNORECASE
DATE_RANGE_PATTERN(text) ==
    LET w == split(text)
    IN  IF /\ Anchored(text) /\ Len(w) = 4
           /\ lower(w[1]) = << "f", "r", "o", "m" >> /\ DatePattern(w[2])
           /\ lower(w[3]) = << "t", "o" >> /\ DatePattern(w[4])
        THEN Match(<< w[2], w[4] >>) ELSE NoMatch

\* ^on\s+(\d{4}-\d{2}-\d{2})$, re.IGNORECASE
SINGLE_DATE_PATTERN(text) ==
    LET w == split(text)
    IN  IF /\ Anchored(text) /\ Len(w) = 2
           /\ lower(w[1]) = << "o", "n" >> /\ DatePattern(w[2])
        THEN Match(<< w[2] >>) ELSE NoMatch

SecondsPerDay == 86400
At(day, sec, us) == [ day |-> day, sec |-> sec, us |-> us ]

\* a <= b on instants
NotAfter(a, b) ==
    \/ a.day < b.day
    \/ a.day = b.day /\ a.sec < b.sec
    \/ a.day = b.day /\ a.sec = b.sec /\ a.us <= b.us

\* replace(hour=0, minute=0, second=0, microsecond=0)
StartOfDay(day) == At(day, 0, 0)
\* replace(hour=23, minute=59, second=59, microsecond=999999)
EndOfDay(day) == At(day, SecondsPerDay - 1, 999999)

IsLeap(y) == ( y % 4 = 0 /\ y % 100 # 0 ) \/ y % 400 = 0
DaysInMonth(y, m) ==
    IF m = 2 THEN ( IF IsLeap(y) THEN 29 ELSE 28 )
    ELSE IF m \in { 4, 6, 9, 11 } THEN 30 ELSE 31

RECURSIVE DaysBeforeMonth(_, _)
DaysBeforeMonth(y, m) ==
    IF m = 1 THEN 0 ELSE DaysBeforeMonth(y, m - 1) + DaysInMonth(y, m - 1)

\* date(y, m, d).toordinal()
Ordinal(y, m, d) ==
    365 * (y - 1) + ((y - 1) \div 4) - ((y - 1) \div 100) + ((y - 1) \div 400)
      + DaysBeforeMonth(y, m) + d

\* datetime.strptime(date_str, '%Y-%m-%d') of a text DatePattern matches:
\* the day, or ValueError for what is no date of the years 1 to 9999
ValueError == [ ok |-> FALSE, day |-> 0 ]
strptime(date_str) ==
    LET y == int(SubSeq(date_str, 1, 4))
        m == int(SubSeq(date_str, 6, 7))
        d == int(SubSeq(date_str, 9, 10))
    IN  IF y >= 1 /\ m \in 1..12 /\ d >= 1 /\ d <= DaysInMonth(y, m)
        THEN [ ok |-> TRUE, day |-> Ordinal(y, m, d) ]
        ELSE ValueError

\* what a call of the parser gives: a range, None, or an exception that
\* leaves the call
NoInstant == At(0, 0, 0)
None == [ status |-> "none", start_time |-> NoInstant, end_time |-> NoInstant ]
OverflowError == [ status |-> "raise", start_time |-> NoInstant, end_time |-> NoInstant ]
Timeframe(start_time, end_time) ==
    [ status |-> "range", start_time |-> start_time, end_time |-> end_time ]

\* the instants datetime.now(timezone.utc) may give within month t: its first
\* instant, the middle of its 15th day, the last instant of its second day
ClockInstants(t) ==
    LET first == Ordinal(MonthId(t)[1], MonthId(t)[2], 1)
    IN  { At(first, 0, 0), At(first + 14, 45000, 500000),
          At(first + 1, SecondsPerDay - 1, 999999) }

\* timedelta accepts at most this many days
MaxDeltaDays == 999999999

\* TimeframeParser._parse_today
_parse_today(at) == Timeframe(StartOfDay(at.day), EndOfDay(at.day))

\* TimeframeParser._parse_yesterday
_parse_yesterday(at) == Timeframe(StartOfDay(at.day - 1), EndOfDay(at.day - 1))

\* (now - delta, now) for delta = timedelta(days=days, seconds=seconds), or
\* OverflowError when the delta or the difference cannot be represented
Since(at, days, seconds) ==
    LET borrow == IF at.sec < seconds THEN 1 ELSE 0
        start_time == At(at.day - days - borrow,
                         at.sec - seconds + borrow * SecondsPerDay, at.us)
    IN  IF days > MaxDeltaDays \/ start_time.day < 1 THEN OverflowError
        ELSE Timeframe(start_time, at)

\* TimeframeParser._parse_relative
_parse_relative(match, at) ==
    LET amount == int(match.groups[1])
        named == lower(match.groups[2])
        unit == IF named[Len(named)] = "s" THEN SubSeq(named, 1, Len(named) - 1)
                ELSE named
    IN  IF unit = << "h", "o", "u", "r" >>
        THEN Since(at, amount \div 24, (amount % 24) * 3600)
        ELSE IF unit = << "d", "a", "y" >> THEN Since(at, amount, 0)
        ELSE IF unit = << "w", "e", "e", "k" >> THEN Since(at, 7 * amount, 0)
        ELSE Since(at, 1, 0)

\* an inverted range accepted with its bounds exchanged
_parse_date_range_Swapped(match) ==
    LET start_date == strptime(match.groups[1])
        end_date == strptime(match.groups[2])
        start_time == StartOfDay(start_date.day)
        end_time == EndOfDay(end_date.day)
    IN  IF ~start_date.ok \/ ~end_date.ok THEN None
        ELSE IF ~NotAfter(start_time, end_time)
        THEN Timeframe(StartOfDay(end_date.day), EndOfDay(start_date.day))
        ELSE Timeframe(start_time, end_time)

\* TimeframeParser._parse_date_range
_parse_date_range(match) ==
    LET start_date == strptime(match.groups[1])
        end_date == strptime(match.groups[2])
        start_time == StartOfDay(start_date.day)
        end_time == EndOfDay(end_date.day)
    IN  IF ~start_date.ok \/ ~end_date.ok THEN None
        ELSE IF ~NotAfter(start_time, end_time) THEN None
        ELSE Timeframe(start_time, end_time)

\* TimeframeParser._parse_single_date
_parse_single_date(match) ==
    LET date == strptime(match.groups[1])
    IN  IF ~date.ok THEN None
        ELSE Timeframe(StartOfDay(date.day), EndOfDay(date.day))

\* TimeframeParser.parse, with at the instant datetime.now() gives
parse(given, at) ==
    LET text == lower(strip(given))
    IN  IF text = << "t", "o", "d", "a", "y" >> THEN _parse_today(at)
        ELSE IF text = << "y", "e", "s", "t", "e", "r", "d", "a", "y" >>
        THEN _parse_yesterday(at)
        ELSE IF RELATIVE_PATTERN(text).matched
        THEN _parse_relative(RELATIVE_PATTERN(text), at)
        ELSE IF DATE_RANGE_PATTERN(text).matched
        THEN _parse_date_range(DATE_RANGE_PATTERN(text))
        ELSE IF SINGLE_DATE_PATTERN(text).matched
        THEN _parse_single_date(SINGLE_DATE_PATTERN(text))
        ELSE None

\* context.args of the /summary commands considered: none, a count, and
\* texts for each way through the parser
CommandArgs ==
    { << >>,
      << << "5", "0", "0" >> >>,
      << << "t", "o", "d", "a", "y" >> >>,
      << << "2", "4", "h" >> >>,
      << << "f", "o", "o" >> >>,
      << << "l", "a", "s", "t" >>, << "3" >>, << "d", "a", "y", "s" >> >>,
      << << "l", "a", "s", "t" >>, << "8", "0", "0", "0", "0", "0" >>,
         << "d", "a", "y", "s" >> >>,
      << << "f", "r", "o", "m" >>,
         << "2", "0", "2", "4", "-", "0", "1", "-", "1", "5" >>, << "t", "o" >>,
         << "2", "0", "2", "4", "-", "0", "1", "-", "2", "0" >> >>,
      << << "f", "r", "o", "m" >>,
         << "2", "0", "2", "4", "-", "0", "1", "-", "2", "0" >>, << "t", "o" >>,
         << "2", "0", "2", "4", "-", "0", "1", "-", "1", "5" >> >>,
      << << "f", "r", "o", "m" >>,
         << "2", "0", "2", "4", "-", "0", "1", "-", "1", "5" >>, << "t", "o" >>,
         << "2", "0", "2", "4", "-", "1", "3", "-", "0", "1" >> >>,
      << << "o", "n" >>, << "2", "0", "2", "4", "-", "0", "1", "-", "1", "5" >> >> }

\* the next update the dispatcher hands to a handler is request r
Arrives(r) ==
    /\ busy = 0
    /\ req[r].pc = "idle"
    /\ \A q \in Reqs : q < r => req[q].pc # "idle"

\* summary_command: store the command message, read the arguments, and go on
\* to handle_summary_request unless the timeframe is invalid; an exception of
\* the parser ends the handler where it is
summary_command(r) ==
    /\ Arrives(r)
    /\ \E args \in CommandArgs : \E at \in ClockInstants(now) :
         LET stored == [ req[r] EXCEPT !.stores = @ + 1 ]
             timeframe_result == parse(join(args), at)
         IN  req' = [ req EXCEPT ![r] =
                        IF args = << >> \/ ( Len(args) = 1 /\ ~IntValueError(args[1]) )
                        THEN [ stored EXCEPT !.pc = "parsed" ]
                        ELSE IF timeframe_result.status = "range"
                        THEN [ stored EXCEPT !.pc = "parsed", !.timeframe = TRUE ]
                        ELSE IF timeframe_result.status = "none"
                        THEN [ stored EXCEPT !.pc = "done",
                                             !.outcome = "invalid-timeframe" ]
                        ELSE [ stored EXCEPT !.pc = "done",
                                             !.outcome = "handler-error" ] ]
    /\ ret' = BotStep
    /\ UNCHANGED <<now, data, warnings_sent, file, archiveLog, timesFired,
                   sinceClear, sumRecorded, resets, busy>>

\* handle_mention: store the message, then handle_summary_request
handle_mention(r) ==
    /\ Arrives(r)
    /\ req' = [ req EXCEPT ![r].pc = "parsed", ![r].stores = @ + 1 ]
    /\ ret' = BotStep
    /\ UNCHANGED <<now, data, warnings_sent, file, archiveLog, timesFired,
                   sinceClear, sumRecorded, resets, busy>>

\* an empty retrieval is not told from any other
NoMessages_Never(n) == FALSE

\* if not messages: with n = len(messages)
NoMessages(n) == n = 0

\* handle_summary_request, steps 2 to 5: retrieve, check the count, sample,
\* format and estimate
Retrieve(r) ==
    /\ busy = 0
    /\ req[r].pc = "parsed"
    /\ \E m \in Retrievals :
         \* without a timeframe at most limit <= MAX_STORED_MESSAGES messages
         /\ req[r].timeframe \/ m.n <= MAX_STORED_MESSAGES
         /\ LET check_result == check_message_count(m.n)
                count == IF check_result.should_sample
                         THEN SampledCount(m.n, check_result.recommended_sample_size)
                         ELSE m.n
                cost_estimate == estimate_api_cost(count, m.chars)
            IN  req' = [ req EXCEPT ![r] =
                           IF NoMessages(m.n)
                           THEN [ @ EXCEPT !.pc = "done", !.outcome = "empty",
                                           !.reads = @ + 1 ]
                           ELSE [ @ EXCEPT
                                    !.pc = "estimated",
                                    !.reads = @ + 1,
                                    !.checks = @ + 1,
                                    !.estimates = @ + 1,
                                    !.original_count = m.n,
                                    !.count = count,
                                    !.chars = m.chars,
                                    !.estimated_tokens =
                                        cost_estimate.estimated_input_tokens
                                          + cost_estimate.estimated_output_tokens,
                                    !.exceeded =
                                        cost_estimate.warning_threshold_exceeded ] ]
    /\ ret' = BotStep
    /\ UNCHANGED <<now, data, warnings_sent, file, archiveLog, timesFired,
                   sinceClear, sumRecorded, resets, busy>>

\* handle_summary_request, the budget check made when the estimate exceeds the
\* warning threshold
HandleGate(r, w) ==
    /\ busy = 0
    /\ req[r].pc = "estimated"
    /\ IF req[r].exceeded
       THEN LET S == can_make_request(Cur, req[r].estimated_tokens, now, w)
            IN  /\ Becomes(S)
                /\ req' = [ req EXCEPT ![r] =
                              [ AfterGate(@, S.ret.can_proceed, "generating")
                                  EXCEPT !.gatedAt = sumRecorded,
                                         !.gatedLog = Len(S.archiveLog) ] ]
       ELSE /\ req' = [ req EXCEPT ![r].pc = "generating" ]
            /\ ret' = BotStep
            /\ UNCHANGED <<data, warnings_sent, file, archiveLog, timesFired,
                           sinceClear, sumRecorded, resets>>
    /\ UNCHANGED <<now, busy>>

\* generate_summary up to the call of the summarizer, which blocks the event loop
GenerateStart(r, w) ==
    /\ busy = 0
    /\ req[r].pc = "generating"
    /\ IF req[r].chars = 0
       THEN /\ req' = [ req EXCEPT ![r].pc = "done", ![r].outcome = "no-text" ]
            /\ ret' = BotStep
            /\ busy' = 0
            /\ UNCHANGED <<data, warnings_sent, file, archiveLog, timesFired,
                           sinceClear, sumRecorded, resets>>
       ELSE LET S == can_make_request(Cur, GATE_ESTIMATE, now, w)
                q == AfterGate(req[r], S.ret.can_proceed, "calling")
            IN  /\ Becomes(S)
                /\ req' = [ req EXCEPT ![r] =
                              IF q.pc = "calling"
                              THEN [ q EXCEPT !.apiCalls = @ + 1 ] ELSE q ]
                /\ busy' = IF q.pc = "calling" THEN r ELSE 0
    /\ UNCHANGED now

\* a failed call of the summarizer made again
ApiFails_Retried(r) ==
    /\ busy = r
    /\ req[r].pc = "calling"
    /\ req' = [ req EXCEPT ![r].pc = "generating" ]
    /\ busy' = 0
    /\ ret' = BotStep
    /\ UNCHANGED <<now, data, warnings_sent, file, archiveLog, timesFired,
                   sinceClear, sumRecorded, resets>>

\* the summarizer raises: generate_summary returns the error text
ApiFails(r) ==
    /\ busy = r
    /\ req[r].pc = "calling"
    /\ req' = [ req EXCEPT ![r].pc = "done", ![r].outcome = "provider-error" ]
    /\ busy' = 0
    /\ ret' = BotStep
    /\ UNCHANGED <<now, data, warnings_sent, file, archiveLog, timesFired,
                   sinceClear, sumRecorded, resets>>

\* the summarizer returns: track_request, then check_warning_thresholds
ApiReturns(r, w) ==
    /\ busy = r
    /\ req[r].pc = "calling"
    /\ \E u \in ApiUsages :
         Becomes(check_warning_thresholds(track_request(Cur, u[1], u[2], w), now, w))
    /\ req' = [ req EXCEPT ![r].pc = "done", ![r].outcome = "summary",
                           ![r].records = @ + 1 ]
    /\ busy' = 0
    /\ UNCHANGED now

\* usage_command
usage_command(w) ==
    /\ busy = 0
    /\ Becomes(get_usage_stats(Cur, now, w))
    /\ UNCHANGED <<now, req, busy>>

\* resetusage_command, sent by the administrator or by someone else
resetusage_command(is_admin, w) ==
    /\ busy = 0
    /\ resets < MaxResets
    /\ IF is_admin
       THEN Becomes(reset_usage(Cur, now, w))
       ELSE /\ ret' = BotStep
            /\ UNCHANGED <<data, warnings_sent, file, archiveLog, timesFired,
                           sinceClear, sumRecorded, resets>>
    /\ UNCHANGED <<now, req, busy>>

\* the clock, while the bot runs
BotTick == Tick /\ UNCHANGED botVars

\* ledgers the bot may find at start: this month's, at 50%, 75% and just
\* under 100% of the budget
BotData(c) ==
    [ current_month |-> MonthId(StartMonth), total_cost |-> c, input_tokens |-> c,
      output_tokens |-> 0, request_count |-> 1, history |-> << >> ]

BotFiles ==
    { [ status |-> "ok", data |-> BotData(20000000) ],
      [ status |-> "ok", data |-> BotData(30000000) ],
      [ status |-> "ok", data |-> BotData(39995000) ] }

InitBot ==
    /\ now = StartMonth
    /\ \E f \in BotFiles : Holds(Construct(f, StartMonth, "ok"))
    /\ req = [ r \in Reqs |-> IdleRequest ]
    /\ busy = 0

NextBot ==
    \/ BotTick
    \/ \E r \in Reqs : summary_command(r)
    \/ \E r \in Reqs : handle_mention(r)
    \/ \E r \in Reqs : Retrieve(r)
    \/ \E r \in Reqs : HandleGate(r, "ok")
    \/ \E r \in Reqs : GenerateStart(r, "ok")
    \/ \E r \in Reqs : ApiFails(r)
    \/ \E r \in Reqs : ApiReturns(r, "ok")
    \/ usage_command("ok")
    \/ \E a \in BOOLEAN : resetusage_command(a, "ok")

SpecBot == InitBot /\ [][NextBot]_vars

\* C2: a request that the budget gate denies does not reach the summarizer and
\* is not recorded; the step that denies it does not increase cumulative cost,
\* token counters or request count.
C2_DeniedRequestIsNotCharged ==
    /\ [](\A r \in Reqs : req[r].outcome = "budget-denied" =>
            (req[r].apiCalls = 0 /\ req[r].records = 0))
    /\ [][ \A r \in Reqs :
             ( req'[r].outcome = "budget-denied" /\ req[r].outcome # "budget-denied" )
             => /\ data'.total_cost <= data.total_cost
                /\ data'.input_tokens <= data.input_tokens
                /\ data'.output_tokens <= data.output_tokens
                /\ data'.request_count <= data.request_count
                /\ sumRecorded' = sumRecorded ]_vars

\* a request denied by the gate of generate_summary, after another was charged
C2_Witness ==
    /\ ret.op = "can_make_request"
    /\ \E r \in Reqs : req[r].outcome = "budget-denied" /\ req[r].pc = "done"
    /\ \E r \in Reqs : req[r].outcome = "summary"
    /\ data.total_cost > 0

----------------------------------------------------------------------------
(* The sampler on its own: one call of check_message_count or of
   sample_messages, on inputs drawn from bounded sets *)

MaxMessages == 5        \* messages in a list given to sample_messages
MaxDate == 3            \* occurrence instants of those messages: 1..MaxDate

\* hard limits a sampler is built with: below the safe limit, equal to it,
\* between, and the default
HardLimits == { 300, 500, 750, 1000 }

\* message counts around 0, 300, 500, 750 and 1000, and one far above
MessageCounts ==
    (0..3) \cup (298..302) \cup (498..502) \cup (748..752) \cup (998..1002) \cup {5000}

TextLens == { 1, 2 }

\* a message: its place in the list given, its occurrence instant ('date')
\* and the length of its text
Messages(s) ==
    [ i \in 1..Len(s) |-> [ id |-> i, date |-> s[i][1], len |-> s[i][2] ] ]

\* the chronologically ordered lists of up to MaxMessages messages
MessageLists ==
    UNION { { Messages(s) : s \in { x \in [ 1..n -> (1..MaxDate) \X TextLens ] :
                                      \A i \in 1..(n - 1) : x[i][1] <= x[i + 1][1] } }
            : n \in 0..MaxMessages }

TargetSizes == (-1)..(MaxMessages + 1)

Front(s) == SubSeq(s, 1, Len(s) - 1)

\* one element too many
FirstN_OneMore(s, n) == IF Len(s) <= n + 1 THEN s ELSE SubSeq(s, 1, n + 1)

\* s[:n] of Python, n >= 0
FirstN(s, n) == IF Len(s) <= n THEN s ELSE SubSeq(s, 1, n)

\* sorted(segment, key=len(text), reverse=True): a stable sort, longest first
RECURSIVE InsertByLen(_, _)
InsertByLen(t, x) ==
    IF t = << >> THEN << x >>
    ELSE IF Head(t).len >= x.len THEN << Head(t) >> \o InsertByLen(Tail(t), x)
    ELSE << x >> \o t

\* the segment left in the order given
SortedByLen_Unsorted(s) == s

RECURSIVE SortedByLen(_)
SortedByLen(s) ==
    IF s = << >> THEN << >> ELSE InsertByLen(SortedByLen(Front(s)), s[Len(s)])

\* list.sort(key=date): a stable sort, earliest first
RECURSIVE InsertByDate(_, _)
InsertByDate(t, x) ==
    IF t = << >> THEN << x >>
    ELSE IF Head(t).date <= x.date THEN << Head(t) >> \o InsertByDate(Tail(t), x)
    ELSE << x >> \o t

RECURSIVE SortedByDate(_)
SortedByDate(s) ==
    IF s = << >> THEN << >> ELSE InsertByDate(SortedByDate(Front(s)), s[Len(s)])

\* [segment[int(j * step)] for j in range(take_count)], step = len(segment) / take_count
EvenlySpaced(segment, take_count) ==
    [ j \in 1..take_count |-> segment[ (((j - 1) * Len(segment)) \div take_count) + 1 ] ]

\* what the loop of sample_messages takes from segment i (counted from 0)
SampledSegment(messages, target_size, prioritize_engagement, i) ==
    LET num_segments == Min(target_size, Len(messages))
        messages_per_segment == target_size \div num_segments
        remaining_messages == target_size % num_segments
        segment_size == Len(messages) \div num_segments
        start_idx == i * segment_size
        end_idx == IF i = num_segments - 1 THEN Len(messages)
                   ELSE (i + 1) * segment_size
        segment == SubSeq(messages, start_idx + 1, end_idx)
        take_count == messages_per_segment + (IF i < remaining_messages THEN 1 ELSE 0)
    IN  IF prioritize_engagement THEN FirstN(SortedByLen(segment), take_count)
        ELSE IF Len(segment) <= take_count THEN segment
        ELSE EvenlySpaced(segment, take_count)

\* sampled_messages after the segments 0 .. i
RECURSIVE SampledUpTo(_, _, _, _)
SampledUpTo(messages, target_size, prioritize_engagement, i) ==
    IF i < 0 THEN << >>
    ELSE SampledUpTo(messages, target_size, prioritize_engagement, i - 1)
           \o SampledSegment(messages, target_size, prioritize_engagement, i)

\* a target of zero or less taken as "no sampling"
sample_messages_InvalidTargetKeepsAll(messages, target_size, prioritize_engagement) ==
    IF Len(messages) <= target_size THEN messages
    ELSE IF target_size <= 0 THEN messages
    ELSE SortedByDate(SampledUpTo(messages, target_size, prioritize_engagement,
                                  Min(target_size, Len(messages)) - 1))

\* SmartSampler.sample_messages
sample_messages(messages, target_size, prioritize_engagement) ==
    IF Len(messages) <= target_size THEN messages
    ELSE IF target_size <= 0 THEN << >>
    ELSE SortedByDate(SampledUpTo(messages, target_size, prioritize_engagement,
                                  Min(target_size, Len(messages)) - 1))

\* one call of SmartSampler(hard_limit).check_message_count
CallCheckCount(hard_limit, message_count) ==
    /\ ret.op = "init"
    /\ ret' = [ op |-> "check_message_count", hard_limit |-> hard_limit,
                message_count |-> message_count,
                result |-> CheckCount(hard_limit, message_count), rolled |-> FALSE ]
    /\ UNCHANGED <<now, data, warnings_sent, file, archiveLog, timesFired,
                   sinceClear, sumRecorded, resets, req, busy>>

\* one call of sample_messages
CallSample(messages, target_size, prioritize_engagement) ==
    /\ ret.op = "init"
    /\ ret' = [ op |-> "sample_messages", messages |-> messages,
                target_size |-> target_size,
                prioritize_engagement |-> prioritize_engagement,
                result |-> sample_messages(messages, target_size,
                                           prioritize_engagement),
                rolled |-> FALSE ]
    /\ UNCHANGED <<now, data, warnings_sent, file, archiveLog, timesFired,
                   sinceClear, sumRecorded, resets, req, busy>>

InitSampler ==
    /\ now = StartMonth
    /\ Holds(Construct([ status |-> "missing", data |-> NoData ], StartMonth, "ok"))
    /\ req = [ r \in Reqs |-> IdleRequest ]
    /\ busy = 0

\* one call, made from the initial state
NextSampler ==
    /\ ret.op = "init"
    /\ \/ \E h \in HardLimits, c \in MessageCounts : CallCheckCount(h, c)
       \/ \E m \in MessageLists, t \in TargetSizes, p \in BOOLEAN : CallSample(m, t, p)

SpecSampler == InitSampler /\ [][NextSampler]_vars

----------------------------------------------------------------------------
(* The parser on its own: one call of TimeframeParser.parse, on a text and at
   an instant drawn from bounded sets *)

Amounts ==
    { << "0" >>, << "1" >>, << "3" >>, << "2", "4" >>,
      << "8", "0", "0", "0", "0", "0" >> }

LastWords ==
    { << "l", "a", "s", "t" >>, << "L", "A", "S", "T" >>, << "L", "a", "s", "t" >> }

UnitWords ==
    RelativeUnits \cup { << "H", "o", "u", "r" >>, << "D", "a", "y", "s" >>,
                         << "W", "E", "E", "K", "S" >> }

Separators == { << " " >>, << " ", "\t" >> }

\* last N unit
RelativeTexts ==
    { l \o s \o n \o s \o u :
        l \in LastWords, s \in Separators, n \in Amounts, u \in UnitWords }

ShortUnits == { << "h" >>, << "d" >>, << "w" >>, << "m", "o" >> }

\* the shorthand of the help text: 24h, 60d, 3w, 2mo
ShorthandTexts == { n \o u : n \in Amounts, u \in ShortUnits }

\* texts of the form dddd-dd-dd: three dates, and three that are no dates
DateTexts ==
    { << "2", "0", "2", "4", "-", "0", "1", "-", "1", "5" >>,
      << "2", "0", "2", "4", "-", "0", "1", "-", "2", "0" >>,
      << "2", "0", "2", "4", "-", "0", "2", "-", "2", "9" >>,
      << "2", "0", "2", "3", "-", "0", "2", "-", "2", "9" >>,
      << "2", "0", "2", "4", "-", "1", "3", "-", "0", "1" >>,
      << "0", "0", "0", "0", "-", "0", "1", "-", "0", "1" >> }

\* from A to B
RangeTexts ==
    { f \o << " " >> \o a \o << " " >> \o << "t", "o" >> \o << " " >> \o b :
        f \in { << "f", "r", "o", "m" >>, << "F", "r", "o", "m" >> },
        a \in DateTexts, b \in DateTexts }

\* on A
SingleDateTexts == { << "o", "n", " " >> \o a : a \in DateTexts }

OtherTexts ==
    { << >>,
      << "t", "o", "d", "a", "y" >>,
      << " ", "T", "o", "d", "a", "y", " " >>,
      << "y", "e", "s", "t", "e", "r", "d", "a", "y" >>,
      << "5", "0", "0" >>,
      << "f", "o", "o" >>,
      << "l", "a", "s", "t", " ", "d", "a", "y", "s" >>,
      << "l", "a", "s", "t", " ", "-", "1", " ", "d", "a", "y", "s" >>,
      << "l", "a", "s", "t", "3", "d", "a", "y", "s" >> }

Texts ==
    RelativeTexts \cup ShorthandTexts \cup RangeTexts \cup SingleDateTexts
      \cup OtherTexts

\* one call of TimeframeParser().parse(text)
CallParse(text, at) ==
    /\ ret.op = "init"
    /\ ret' = [ op |-> "parse", text |-> text, at |-> at,
                result |-> parse(text, at), rolled |-> FALSE ]
    /\ UNCHANGED <<now, data, warnings_sent, file, archiveLog, timesFired,
                   sinceClear, sumRecorded, resets, req, busy>>

InitParser ==
    /\ now = StartMonth
    /\ Holds(Construct([ status |-> "missing", data |-> NoData ], StartMonth, "ok"))
    /\ req = [ r \in Reqs |-> IdleRequest ]
    /\ busy = 0

\* one call, made from the initial state
NextParser ==
    /\ ret.op = "init"
    /\ \E text \in Texts, at \in ClockInstants(now) : CallParse(text, at)

SpecParser == InitParser /\ [][NextParser]_vars

----------------------------------------------------------------------------
(* Properties of the ledger *)

Thresholds == Range(WARNING_THRESHOLDS)

\* C1: can_make_request denies exactly when the current cumulative cost plus
\* estimated_tokens x output rate is strictly greater than the monthly budget;
\* a projection that lands exactly on the budget is allowed.
C1_GateDeniesExactlyAboveBudget ==
    [][ ret'.op = "can_make_request" =>
          ( ~ret'.can_proceed <=>
              data'.total_cost + ret'.estimated_tokens * OUTPUT_TOKEN_COST
                > monthly_budget ) ]_vars

\* a call that was allowed with its projection exactly on the budget
C1_Witness ==
    /\ ret.op = "can_make_request"
    /\ ret.can_proceed
    /\ data.total_cost > 0
    /\ data.total_cost + ret.estimated_tokens * OUTPUT_TOKEN_COST = monthly_budget

\* C3, as claimed: a call whose projected cost alone exceeds the budget is
\* denied and leaves period id, cost, token counters, request count and
\* history as they were, in every reachable ledger state.
C3_DeniedCallChangesNothing ==
    [][ ( ret'.op = "can_make_request"
          /\ ret'.estimated_tokens * OUTPUT_TOKEN_COST > monthly_budget )
        => ( ~ret'.can_proceed /\ data' = data ) ]_vars

\* C3, amended: such a call is denied; it leaves the ledger as it was when the
\* stored period is the wall-clock month, and otherwise it does the rollover
\* and nothing more: the stored period is archived as the last history entry
\* and the counters of the new period are zero.
C3_DeniedCallOnlyRollsOver ==
    [][ ( ret'.op = "can_make_request"
          /\ ret'.estimated_tokens * OUTPUT_TOKEN_COST > monthly_budget )
        => /\ ~ret'.can_proceed
           /\ data.current_month = MonthId(now) =>
                (data' = data /\ warnings_sent' = warnings_sent)
           /\ data.current_month # MonthId(now) =>
                /\ data'.current_month = MonthId(now)
                /\ data'.total_cost = 0
                /\ data'.input_tokens = 0
                /\ data'.output_tokens = 0
                /\ data'.request_count = 0
                /\ data'.history[Len(data'.history)] = ArchiveEntry(data)
                /\ SubSeq(data'.history, 1, Len(data'.history) - 1)
                     = LastN(data.history, HISTORY_CAP - 1) ]_vars

\* a denied call, on its own above the budget, in the stored period, with spend
C3_Witness ==
    /\ ret.op = "can_make_request"
    /\ ret.estimated_tokens * OUTPUT_TOKEN_COST > monthly_budget
    /\ ~ret.can_proceed
    /\ ~ret.rolled
    /\ data.total_cost > 0

C5_RecordAddsExactCost ==
    [][ ret'.op = "track_request" =>
          LET cost == ret'.input_tokens * INPUT_TOKEN_COST
                        + ret'.output_tokens * OUTPUT_TOKEN_COST
          IN  /\ data'.total_cost = data.total_cost + cost
              /\ data'.input_tokens = data.input_tokens + ret'.input_tokens
              /\ data'.output_tokens = data.output_tokens + ret'.output_tokens
              /\ data'.request_count = data.request_count + 1
              /\ ret'.request_cost = cost
              /\ ret'.total_cost = data'.total_cost
              /\ ret'.budget_used_pct.num = data'.total_cost
              /\ ret'.budget_used_pct.den * 100 = monthly_budget ]_vars

\* a second record in a period, with both kinds of tokens
C5_Witness ==
    /\ ret.op = "track_request"
    /\ ret.input_tokens > 0
    /\ ret.output_tokens > 0
    /\ data.request_count >= 2
    /\ ret.total_cost > ret.request_cost

\* C6, as claimed: after any ledger operation the counters belong to the
\* wall-clock period.
C6_CountersBelongToWallClockPeriod ==
    [][ ret'.op \in { "can_make_request", "track_request",
                      "check_warning_thresholds", "get_usage_stats" }
        => data'.current_month = MonthId(now') ]_vars

\* the history that archiving stored data d leaves, as C7 states it
ArchivedInto(h, d) ==
    /\ Len(h) >= 1
    /\ Len(h) <= 12
    /\ h[Len(h)] = [ month |-> d.current_month, total_cost |-> d.total_cost,
                     input_tokens |-> d.input_tokens,
                     output_tokens |-> d.output_tokens,
                     request_count |-> d.request_count ]
    /\ \A i \in 1..(Len(h) - 1) : h[i] = d.history[Len(d.history) - (Len(h) - 1) + i]
    /\ Len(h) - 1 = IF Len(d.history) < 12 THEN Len(d.history) ELSE 11

\* C7: an access that finds the stored period id different from the
\* wall-clock month appends the stored period to history as one entry, zeroes
\* cost, tokens and request count, sets the period id to the wall-clock
\* month, clears the fired-warnings set, and leaves at most 12 entries.
C7_RolloverArchivesAndZeroes ==
    [][ ( /\ data.current_month # MonthId(now)
          /\ \/ ret'.op \in { "can_make_request", "get_usage_stats" }
             \/ ret'.op = "check_warning_thresholds" /\ ret'.threshold # 0 )
        => /\ ArchivedInto(data'.history, data)
           /\ data'.total_cost = 0
           /\ data'.input_tokens = 0
           /\ data'.output_tokens = 0
           /\ data'.request_count = 0
           /\ data'.current_month = MonthId(now)
           /\ warnings_sent' = {} ]_vars

\* a rollover that archived real spend and evicted an entry
C7_Witness ==
    /\ ret.op = "can_make_request"
    /\ ret.rolled
    /\ Len(archiveLog) > HISTORY_CAP
    /\ Len(data.history) = HISTORY_CAP
    /\ data.history[HISTORY_CAP].total_cost > 0

\* C8: history holds at most 12 entries, the most recently archived ones in
\* archive order.
C8_HistoryIsLastTwelveArchived ==
    /\ Len(data.history) <= 12
    /\ Len(data.history) = (IF Len(archiveLog) < 12 THEN Len(archiveLog) ELSE 12)
    /\ \A i \in 1..Len(data.history) :
         data.history[i] = archiveLog[Len(archiveLog) - Len(data.history) + i]

\* two entries were evicted, the last by a manual reset
C8_Witness ==
    /\ ret.op = "reset_usage"
    /\ Len(archiveLog) = HISTORY_CAP + 2

\* C9, as claimed: within one billing period each threshold is returned at
\* most once, manual resets included.
C9_OncePerPeriod == \A th \in Thresholds : timesFired[th] <= 1

\* C9, amended: each threshold is returned at most once as long as the fired
\* set is not cleared by a manual reset, a rollover or a restart.
C9_OncePerClearing == \A th \in Thresholds : sinceClear[th] <= 1

\* every threshold was returned once and a further call returned none
C9_Witness ==
    /\ ret.op = "check_warning_thresholds"
    /\ ret.threshold = 0
    /\ \A th \in Thresholds : sinceClear[th] = 1

\* C10, as claimed: the call that returns a threshold also marks every lower
\* threshold that the cost has reached as fired.
C10_LowerThresholdsMarked ==
    [][ ( ret'.op = "check_warning_thresholds" /\ ret'.threshold # 0
          /\ ~ret'.rolled )
        => \A th \in Thresholds :
             ( th < ret'.threshold /\ data.total_cost >= th * (monthly_budget \div 100) )
             => th \in warnings_sent' ]_vars

\* C11: reset_usage returns the period id, cost, token counts and request
\* count held just before the call, appends that snapshot to history, zeroes
\* cost, token counts and request count and clears the fired-warnings set,
\* whether or not the wall-clock month has changed.
C11_ResetReturnsAndArchivesSnapshot ==
    [][ ret'.op = "reset_usage" =>
          /\ ret'.previous_stats =
               [ month |-> data.current_month, total_cost |-> data.total_cost,
                 input_tokens |-> data.input_tokens,
                 output_tokens |-> data.output_tokens,
                 request_count |-> data.request_count ]
          /\ Len(data'.history) >= 1
          /\ data'.history[Len(data'.history)] = ret'.previous_stats
          /\ SubSeq(data'.history, 1, Len(data'.history) - 1)
               = LastN(data.history, HISTORY_CAP - 1)
          /\ data'.total_cost = 0
          /\ data'.input_tokens = 0
          /\ data'.output_tokens = 0
          /\ data'.request_count = 0
          /\ warnings_sent' = {} ]_vars

\* a reset of a period with spend, made after the
\* wall-clock month had changed
C11_Witness ==
    /\ ret.op = "reset_usage"
    /\ ret.previous_stats.total_cost > 0
    /\ ret.previous_stats.month # MonthId(now)
    /\ data.total_cost = 0

\* C12, as claimed: after a record, a rollover or a reset whose write
\* succeeded, a ledger constructed from the file in the same wall-clock month
\* has the period id, cost, token counters, request count and history of the
\* ledger that wrote the file.
C12_FileRestoresLedger ==
    [][ ( ret'.op \in { "track_request", "reset_usage" } \/ ret'.rolled )
        => LET restored == Construct(file', now', "ok").data
           IN  /\ restored.current_month = data'.current_month
               /\ restored.total_cost = data'.total_cost
               /\ restored.input_tokens = data'.input_tokens
               /\ restored.output_tokens = data'.output_tokens
               /\ restored.request_count = data'.request_count
               /\ restored.history = data'.history ]_vars

\* C13, as claimed: a crash at any point of a ledger write leaves the file
\* holding the complete previous state or the complete new state, so the
\* restart that follows loads that state and does not start from zero.
C13_CrashLeavesOldOrNewState ==
    [][ /\ ret'.op = "crash" =>
             ( file' = file \/ ( file'.status = "ok" /\ file'.data = data' ) )
        /\ ( ret.op = "crash" /\ ret'.op = "init" ) =>
             ( file.status # "truncated"
               /\ ( file.status = "ok" =>
                      data' = _check_and_reset_month(file.data, {}, file, now,
                                                     "ok").data ) ) ]_vars

\* the data of a first run at time t
FirstRunData(t) ==
    [ current_month |-> MonthId(t), total_cost |-> 0, input_tokens |-> 0,
      output_tokens |-> 0, request_count |-> 0, history |-> << >> ]

\* the ledger L takes can_make_request and track_request calls as a new one does
AcceptsCalls(L, t) ==
    /\ \A e \in EstimatedTokens :
         can_make_request(L, e, t, "ok").ret.can_proceed
           = (e * OUTPUT_TOKEN_COST <= monthly_budget)
    /\ \A u \in TokenUsages : \A w \in WriteOutcomes :
         LET T == track_request(L, u[1], u[2], w)
         IN  /\ T.data.total_cost = u[1] * INPUT_TOKEN_COST + u[2] * OUTPUT_TOKEN_COST
             /\ T.data.request_count = 1
             /\ T.ret.request_cost = T.data.total_cost

\* C14: constructing the ledger when its file is missing or cannot be read
\* gives a ledger in the current wall-clock period with zero cost, zero
\* tokens, zero requests and empty history, which then takes
\* can_make_request and track_request calls.
C14_UnreadableFileStartsFromZero ==
    /\ \A f \in InitFiles : f.status # "ok" =>
         /\ Construct(f, now, "ok").data = FirstRunData(now)
         /\ AcceptsCalls(Construct(f, now, "ok"), now)
    /\ [][ ( ret'.op = "init" /\ file.status # "ok" )
           => ( data' = FirstRunData(now') /\ AcceptsCalls(Cur', now') ) ]_vars

\* a restart that found the file cut off by a crash, after spend was recorded
C14_Witness ==
    /\ ret.op = "init"
    /\ file.status = "truncated"
    /\ sumRecorded > 0
    /\ data = FirstRunData(now)

\* request r makes the budget check of handle_summary_request in this step
HandleGateStep(r) ==
    /\ req[r].pc = "estimated"
    /\ req[r].exceeded
    /\ req'[r].pc # "estimated"
    /\ ret'.op = "can_make_request"

C16_EmptyRetrievalEndsRequest ==
    /\ [](\A r \in Reqs : req[r].outcome = "empty" =>
            /\ req[r].pc = "done"
            /\ req[r].checks = 0
            /\ req[r].estimates = 0
            /\ req[r].gates = 0
            /\ req[r].apiCalls = 0
            /\ req[r].records = 0)
    /\ [][ \A r \in Reqs :
             ( req[r].pc = "parsed" /\ req'[r].pc # "parsed"
               /\ req'[r].original_count = 0 )
             => /\ req'[r].outcome = "empty"
                /\ req'[r].pc = "done"
                /\ data' = data
                /\ file' = file
                /\ warnings_sent' = warnings_sent
                /\ sumRecorded' = sumRecorded ]_vars

\* one request ended empty while the other was summarized and recorded
C16_Witness ==
    \E r \in Reqs : \E q \in Reqs \ {r} :
       /\ req[r].outcome = "empty"
       /\ req[q].outcome = "summary"
       /\ req[q].records = 1

\* C17, as claimed: a request whose argument text is an unparseable timeframe
\* or an inverted date range is reported and ends with no store write, no
\* store read, no summarizer call and no change of the ledger.
C17_InvalidTimeframeHasNoSideEffect ==
    /\ [](\A r \in Reqs : req[r].outcome = "invalid-timeframe" =>
            /\ req[r].pc = "done"
            /\ req[r].stores = 0
            /\ req[r].reads = 0
            /\ req[r].gates = 0
            /\ req[r].apiCalls = 0
            /\ req[r].records = 0)
    /\ [][ \A r \in Reqs :
             ( req'[r].outcome = "invalid-timeframe"
               /\ req[r].outcome # "invalid-timeframe" )
             => ( data' = data /\ file' = file /\ warnings_sent' = warnings_sent ) ]_vars

\* the number of messages handle_summary_request formats when the store
\* returns n of them
FormattedCount(n) ==
    IF check_message_count(n).should_sample
    THEN SampledCount(n, check_message_count(n).recommended_sample_size)
    ELSE n

\* C19: in every request, whatever number of messages the store returns, the
\* number of messages formatted and passed to the summarizer is at most the
\* hard limit of 1000.
C19_FormattedCountWithinHardLimit ==
    /\ \A r \in Reqs :
         /\ req[r].count <= 1000
         /\ req[r].pc \in { "estimated", "generating", "calling" } =>
              req[r].count = FormattedCount(req[r].original_count)
    /\ \A n \in MessageCounts : FormattedCount(n) <= 1000

\* a request for which the store returned more than the hard limit is with
\* the summarizer, with exactly 1000 messages
C19_Witness ==
    \E r \in Reqs :
       /\ req[r].pc = "calling"
       /\ req[r].original_count > 1000
       /\ req[r].count = 1000
       /\ req[r].apiCalls = 1

----------------------------------------------------------------------------
(* Properties of the sampler *)

\* C18: with safe limit <= hard limit, check_message_count(count) returns
\* status ok with target = count and no sampling when count <= safe, status
\* suggest_sampling with target = safe when safe < count <= hard, and status
\* require_sampling with target = hard when count > hard; in every case
\* target <= count.
C18_CheckCountByCeilings ==
    ( ret.op = "check_message_count" /\ SAFE_PROCESSING_LIMIT <= ret.hard_limit )
    => LET count == ret.message_count
           safe == SAFE_PROCESSING_LIMIT
           hard == ret.hard_limit
           status == ret.result.status
           target == ret.result.recommended_sample_size
       IN  /\ count <= safe =>
                ( status = "ok" /\ target = count /\ ~ret.result.should_sample )
           /\ ( safe < count /\ count <= hard ) =>
                ( status = "suggest_sampling" /\ target = safe
                  /\ ret.result.should_sample )
           /\ count > hard =>
                ( status = "require_sampling" /\ target = hard
                  /\ ret.result.should_sample )
           /\ target <= count

\* a count exactly on a hard limit that lies above the safe limit
C18_Witness ==
    /\ ret.op = "check_message_count"
    /\ ret.hard_limit > SAFE_PROCESSING_LIMIT
    /\ ret.message_count = ret.hard_limit
    /\ ret.result.status = "suggest_sampling"
    /\ ret.result.recommended_sample_size = SAFE_PROCESSING_LIMIT

\* C20: for every chronologically ordered list of messages and every integer
\* target, sample_messages returns at most max(0, target) messages, in
\* non-decreasing order of occurrence instant.  The length it returns is the
\* one SampledCount gives for the length of the list.
C20_SampleBoundedAndOrdered ==
    ret.op = "sample_messages" =>
       /\ Len(ret.result) <= ( IF ret.target_size > 0 THEN ret.target_size ELSE 0 )
       /\ \A i \in 1..Len(ret.result) : \A j \in i..Len(ret.result) :
            ret.result[i].date <= ret.result[j].date
       /\ Len(ret.result) = SampledCount(Len(ret.messages), ret.target_size)

\* a list cut down to a target of two or more, in which a longer message was
\* preferred to the first one of its segment
C20_Witness ==
    /\ ret.op = "sample_messages"
    /\ ret.prioritize_engagement
    /\ ret.target_size >= 2
    /\ Len(ret.messages) > ret.target_size
    /\ Len(ret.result) = ret.target_size
    /\ ret.result[1].id # 1

\* C21: sample_messages gives back a list no longer than the target as it
\* is, same messages in the same order, so that sampling its own result again
\* with the same target changes nothing; with a target of zero or less it
\* gives the empty list.
C21_NoOpAtOrBelowTarget ==
    ret.op = "sample_messages" =>
       /\ Len(ret.messages) <= ret.target_size => ret.result = ret.messages
       /\ ret.target_size <= 0 => ret.result = << >>
       /\ sample_messages(ret.result, ret.target_size, ret.prioritize_engagement)
            = ret.result

\* a list of two or more messages sampled with a target equal to its length
C21_Witness ==
    /\ ret.op = "sample_messages"
    /\ Len(ret.messages) >= 2
    /\ ret.target_size = Len(ret.messages)
    /\ ret.result = ret.messages

\* C22: for a chronologically ordered list longer than a positive target,
\* the result of sample_messages spans the whole list: its earliest message
\* is within one segment width, len(messages) // target_size places, of the
\* first message given and its latest message is within one segment width of
\* the last message given.
C22_SampleSpansWholeRange ==
    ( ret.op = "sample_messages" /\ ret.target_size > 0
      /\ Len(ret.messages) > ret.target_size )
    => LET segment_size == Len(ret.messages) \div ret.target_size
       IN  /\ ret.result # << >>
           /\ ret.result[1].id - 1 <= segment_size
           /\ Len(ret.messages) - ret.result[Len(ret.result)].id <= segment_size

\* the half of C22 about the first message
C22_EarliestWithinFirstSegment ==
    ( ret.op = "sample_messages" /\ ret.target_size > 0
      /\ Len(ret.messages) > ret.target_size )
    => /\ ret.result # << >>
       /\ ret.result[1].id <= Len(ret.messages) \div ret.target_size


\* the places in the list given that make up segment i (counted from 0) when a
\* list of len messages is cut into target segments
SegmentPlaces(len, target, i) ==
    ( i * (len \div target) + 1 ) ..
      ( IF i = target - 1 THEN len ELSE (i + 1) * (len \div target) )

\* C30: for a list longer than a positive target, sample_messages returns
\* exactly target messages: the list is cut into target contiguous segments
\* that together hold every message once, each segment gives
\* target // num_segments = 1 of its messages, and with
\* prioritize_engagement the message taken from a segment is one with the
\* longest text in that segment.
C30_OnePerSegmentLongestFirst ==
    ( ret.op = "sample_messages" /\ ret.target_size > 0
      /\ Len(ret.messages) > ret.target_size )
    => LET len == Len(ret.messages)
           target == ret.target_size
           segments == 0..(target - 1)
           taken(i) == { k \in 1..Len(ret.result) :
                          ret.result[k].id \in SegmentPlaces(len, target, i) }
       IN  /\ Len(ret.result) = target
           /\ \A k \in 1..Len(ret.result) :
                ret.result[k] = ret.messages[ret.result[k].id]
           /\ \A p \in 1..len :
                Cardinality({ i \in segments : p \in SegmentPlaces(len, target, i) }) = 1
           /\ \A i \in segments :
                /\ Cardinality(taken(i)) = target \div Min(target, len)
                /\ ret.prioritize_engagement =>
                     \A k \in taken(i) : \A p \in SegmentPlaces(len, target, i) :
                        ret.result[k].len >= ret.messages[p].len

\* five messages cut down to two with the preference set: the last segment
\* holds three messages and the one taken from it is not its first
C30_Witness ==
    /\ ret.op = "sample_messages"
    /\ ret.prioritize_engagement
    /\ Len(ret.messages) = 5
    /\ ret.target_size = 2
    /\ Len(ret.result) = 2
    /\ ret.result[2].id > 3
    /\ ret.result[2].len > ret.messages[3].len

----------------------------------------------------------------------------
(* Properties of the parser *)

\* the text of a call is the amount n followed by the short unit u
IsShorthand(text, n, u) == text = n \o u

\* the range of 'last N hours', 'last N days', 'last N weeks', and of 30 N
\* days for months
ShorthandRange(n, u, at) ==
    IF u = << "h" >> THEN Since(at, int(n) \div 24, (int(n) % 24) * 3600)
    ELSE IF u = << "d" >> THEN Since(at, int(n), 0)
    ELSE IF u = << "w" >> THEN Since(at, 7 * int(n), 0)
    ELSE Since(at, 30 * int(n), 0)

\* C23: parse accepts the shorthand <N><unit> with unit h, d, w or mo, and
\* gives for it the range of the 'last N hours/days/weeks' form, a month
\* counting as 30 days: never 'not a timeframe'.
C23_ShorthandAccepted ==
    ret.op = "parse" =>
       \A n \in Amounts, u \in ShortUnits :
          IsShorthand(ret.text, n, u) =>
             /\ ret.result.status # "none"
             /\ ret.result = ShorthandRange(n, u, ret.at)


\* date.toordinal() of the three dates among DateTexts
DayOf(date_str) ==
    IF date_str = << "2", "0", "2", "4", "-", "0", "1", "-", "1", "5" >> THEN 738900
    ELSE IF date_str = << "2", "0", "2", "4", "-", "0", "1", "-", "2", "0" >> THEN 738905
    ELSE IF date_str = << "2", "0", "2", "4", "-", "0", "2", "-", "2", "9" >> THEN 738945
    ELSE 0

\* the text is 'from A to B', in either spelling of 'from'
IsRange(text, a, b) ==
    \E f \in { << "f", "r", "o", "m" >>, << "F", "r", "o", "m" >> } :
       text = f \o << " " >> \o a \o << " " >> \o << "t", "o" >> \o << " " >> \o b

\* C24: for dates A and B, parse('from A to B') returns 00:00:00.000000 of A
\* and 23:59:59.999999 of B when A is not after B, and None - no range with
\* the bounds swapped, no exception - when A is after B; every range that
\* parse returns has start <= end.
C24_RangeOrderedOrRejected ==
    ret.op = "parse" =>
       /\ \A a \in DateTexts, b \in DateTexts :
            ( IsRange(ret.text, a, b) /\ DayOf(a) > 0 /\ DayOf(b) > 0 ) =>
               IF DayOf(a) <= DayOf(b)
               THEN /\ ret.result.status = "range"
                    /\ ret.result.start_time = [ day |-> DayOf(a), sec |-> 0, us |-> 0 ]
                    /\ ret.result.end_time =
                         [ day |-> DayOf(b), sec |-> 86399, us |-> 999999 ]
               ELSE ret.result.status = "none"
       /\ ret.result.status = "range" =>
            LET s == ret.result.start_time
                e == ret.result.end_time
            IN  \/ s.day < e.day
                \/ s.day = e.day /\ s.sec < e.sec
                \/ s.day = e.day /\ s.sec = e.sec /\ s.us <= e.us

\* a range given with its later date first
C24_Witness ==
    /\ ret.op = "parse"
    /\ \E a \in DateTexts, b \in DateTexts :
         IsRange(ret.text, a, b) /\ DayOf(b) > 0 /\ DayOf(a) > DayOf(b)
    /\ ret.result.status = "none"


\* the text is 'last N unit' in one of the spellings considered
IsRelative(text, n, u) ==
    \E l \in LastWords, s \in Separators : text = l \o s \o n \o s \o u

\* the days and seconds in N of the unit named
UnitSpan(n, u) ==
    LET unit == lower(u)
    IN  IF unit[1] = "h" THEN << int(n) \div 24, (int(n) % 24) * 3600 >>
        ELSE IF unit[1] = "d" THEN << int(n), 0 >>
        ELSE << 7 * int(n), 0 >>

\* C25: for every N >= 0 and every unit among hour, hours, day, days, week,
\* weeks in any letter case, parse('last N unit') returns a range that ends
\* at the instant of the call and whose length is exactly N of the unit.
C25_RelativeRangeIsExact ==
    ret.op = "parse" =>
       \A n \in Amounts, u \in UnitWords :
          IsRelative(ret.text, n, u) =>
             /\ ret.result.status = "range"
             /\ ret.result.end_time = ret.at
             /\ LET s == ret.result.start_time
                    e == ret.result.end_time
                    later == s.sec + UnitSpan(n, u)[2]
                IN  /\ e.us = s.us
                    /\ e.sec = later % SecondsPerDay
                    /\ e.day = s.day + UnitSpan(n, u)[1] + (later \div SecondsPerDay)

\* the same for the amounts that lie within the years datetime can represent
C25_ExactWhenRepresentable ==
    ret.op = "parse" =>
       \A n \in Amounts, u \in UnitWords :
          ( IsRelative(ret.text, n, u) /\ UnitSpan(n, u)[1] < 700000 ) =>
             /\ ret.result.status = "range"
             /\ ret.result.end_time = ret.at
             /\ LET s == ret.result.start_time
                    e == ret.result.end_time
                    later == s.sec + UnitSpan(n, u)[2]
                IN  /\ e.us = s.us
                    /\ e.sec = later % SecondsPerDay
                    /\ e.day = s.day + UnitSpan(n, u)[1] + (later \div SecondsPerDay)


----------------------------------------------------------------------------
(* Properties of the pipeline *)

\* the stages request r has gone through, each at most once but for the
\* budget check, made at most maxGates times, and none without the one before
StagesInOrder(r, maxGates) ==
    /\ req[r].reads <= 1 /\ req[r].checks <= 1 /\ req[r].estimates <= 1
    /\ req[r].gates <= maxGates
    /\ req[r].apiCalls <= 1 /\ req[r].records <= 1
    /\ req[r].checks <= req[r].reads
    /\ req[r].estimates <= req[r].checks
    /\ req[r].gates > 0 => req[r].estimates = 1
    /\ req[r].apiCalls > 0 => req[r].gates > 0
    /\ req[r].records <= req[r].apiCalls

\* what a step does for request r: the summarizer is called in a step whose
\* budget check allowed; a record is made in the step in which the summarizer
\* returns and in no other; the step in which the summarizer fails ends the
\* request and leaves the counters of the ledger alone; a request that has
\* ended does nothing more
StagesStep(r) ==
    /\ req'[r].apiCalls > req[r].apiCalls =>
          /\ ret'.op = "can_make_request" /\ ret'.can_proceed
          /\ req'[r].gates = req[r].gates + 1
    /\ req'[r].records > req[r].records <=>
          ( req[r].pc = "calling" /\ req'[r].outcome = "summary" )
    /\ ( req[r].pc = "calling" /\ req'[r].outcome = "summary" ) =>
          /\ req'[r].records = req[r].records + 1
          /\ sumRecorded' > sumRecorded
    /\ ( req[r].pc = "calling" /\ req'[r].outcome # "summary" ) =>
          /\ req'[r].pc \in { "calling", "done" }
          /\ data'.total_cost = data.total_cost
          /\ data'.input_tokens = data.input_tokens
          /\ data'.output_tokens = data.output_tokens
          /\ data'.request_count = data.request_count
          /\ sumRecorded' = sumRecorded
    /\ req[r].pc = "done" => req'[r] = req[r]

CostAfterRecord ==
    IF Len(archiveLog') > Len(archiveLog)
    THEN archiveLog'[Len(archiveLog')].total_cost
    ELSE data'.total_cost

\* request r is recorded in this step, at a cost no higher than the cost one
\* of its budget checks projected, and since that check nothing was recorded,
\* rolled over or reset: the check of generate_summary, which nothing can
\* follow but the record, or the check of handle_summary_request
RecordedWithinItsCheck(r) ==
    /\ req[r].pc = "calling" /\ req'[r].outcome = "summary"
    /\ \/ sumRecorded' - sumRecorded <= EstimatedCost(GATE_ESTIMATE)
       \/ /\ req[r].gatedAt = sumRecorded
          /\ req[r].gatedLog = Len(archiveLog)
          /\ sumRecorded' - sumRecorded <= EstimatedCost(req[r].estimated_tokens)

\* C27: when a request's record follows its budget check with no other
\* record, rollover or reset in between, and costs no more than the check
\* projected, the cumulative cost of the period is at most the monthly budget
\* after the record.
C27_SerialRequestsStayWithinBudget ==
    [][ \A r \in Reqs : RecordedWithinItsCheck(r) => CostAfterRecord <= monthly_budget ]_vars

\* a request checked by handle_summary_request with its own estimate and
\* recorded, nothing else having touched the ledger since, at a cost above
\* the fixed estimate of generate_summary
C27_Witness ==
    \E r \in Reqs :
       /\ req[r].outcome = "summary"
       /\ req[r].gates = 2
       /\ req[r].gatedAt >= 0
       /\ req[r].gatedLog = Len(archiveLog)
       /\ ret.op = "check_warning_thresholds"
       /\ sumRecorded - req[r].gatedAt > EstimatedCost(GATE_ESTIMATE)
       /\ sumRecorded - req[r].gatedAt <= EstimatedCost(req[r].estimated_tokens)
       /\ data.total_cost = 20000000 + (sumRecorded - req[r].gatedAt)


\* C28: every request that reaches the summarizer has passed a budget check
\* made with the token estimate built from its own messages - the check of
\* handle_summary_request, the only one given that estimate - and not only
\* one made with a fixed number of tokens.
C28_GatedWithOwnEstimate ==
    \A r \in Reqs : req[r].apiCalls > 0 => req[r].gatedAt >= 0

\* what does hold: the summarizer is reached only through the check of
\* generate_summary, made with GATE_ESTIMATE tokens, and through the check
\* with the request's estimate exactly when that exceeds the warning threshold
C28_GatedWithFixedEstimate ==
    \A r \in Reqs : req[r].apiCalls > 0 =>
       /\ req[r].gates >= 1
       /\ req[r].gatedAt >= 0 <=> req[r].exceeded
       /\ req[r].gates = ( IF req[r].exceeded THEN 2 ELSE 1 )


----------------------------------------------------------------------------
(* Properties of the warnings *)

\* the thresholds the stored cost has reached when check_warning_thresholds
\* is called and that, by the counters given, were not returned before
Unfired(fired) ==
    { th \in Thresholds :
        data.total_cost >= th * (monthly_budget \div 100) /\ fired[th] = 0 }

\* check_warning_thresholds returns the highest of the thresholds U when there
\* is one, and otherwise returns none and leaves warnings_sent as it was
ReturnsHighestOf(U) ==
    IF U # {}
    THEN ret'.threshold # 0 /\ ret'.threshold \in U /\ \A th \in U : th <= ret'.threshold
    ELSE ret'.threshold = 0 /\ warnings_sent' = warnings_sent

\* C29, as claimed: check_warning_thresholds returns a warning exactly when
\* the percent of budget has reached some threshold that has not fired in
\* this period, and then returns the highest such threshold; otherwise it
\* returns none and leaves the fired set unchanged.
C29_HighestUnfiredThisPeriod ==
    [][ ret'.op = "check_warning_thresholds" => ReturnsHighestOf(Unfired(timesFired)) ]_vars

\* C29, amended: the same with 'has not fired since the fired set was last
\* cleared', by a rollover, a manual reset or a restart.
C29_HighestUnfiredSinceClearing ==
    [][ ret'.op = "check_warning_thresholds" => ReturnsHighestOf(Unfired(sinceClear)) ]_vars

\* a threshold returned for the second time in one period, after a reset
C29_Witness ==
    /\ ret.op = "check_warning_thresholds"
    /\ ret.threshold # 0
    /\ ~ret.rolled
    /\ timesFired[ret.threshold] = 2
    /\ sinceClear[ret.threshold] = 1

====
